---- MODULE Spec2Model ----
(***************************************************************************)
(* Count-Min Sketch with heavy-hitter tracking (count_min_sketch.py).      *)
(*                                                                         *)
(* One CountMinSketch object: its constructor, update (with _hash,         *)
(* estimate and _update_heap, and the heapq routines they call).  Python   *)
(* lists are TLA+ sequences, so the 0-based position p of the source is    *)
(* element p + 1 here.  An exception leaves the object as it was at the    *)
(* raise and is recorded in err.                                           *)
(***************************************************************************)
EXTENDS Integers, Sequences, FiniteSets, TLC

\* ---- bounds of the model ------------------------------------------------
MaxCells  == 4      \* sketches are built with at most MaxCells counters (w * d)
MaxCap    == 2      \* largest k handed to the constructor
MaxWeight == 2      \* largest count handed to update
MaxTotal  == 2      \* update calls are enumerated while _n + count <= MaxTotal
MaxSharedCells == 2 \* most counters (w * d) of a sketch that two threads update

Items   == {"a", "b", "c"}
ItemRank == [x \in Items |-> CASE x = "a" -> 1 [] x = "b" -> 2 [] OTHER -> 3]
Widths  == -1..MaxCells
Depths  == -1..MaxCells
Caps    == 0..MaxCap
Weights == -1..MaxWeight
Digests == 0..(MaxCells - 1)

\* the threads that call update on the one sketch (the stream's listener
\* threads of twitter_stream.py, line 23)
Threads == {1, 2}

VARIABLES
    exists,   \* TRUE once __init__ has returned an object
    w, d, k,  \* self._w, self._d, self._k
    n,        \* self._n
    tables,   \* self._tables : d arrays of range(w) counters
    heap,     \* self._heap   : list of pairs [estimate, item]
    top_k,    \* self._top_k  : dict item -> its pair
    hcols,    \* list(self._hash(item)) per item: one column per row, fixed for the object
    err,      \* outcome of the last call: "none", "ok" or the exception raised
    branch,   \* the return of _update_heap the last call took, "none" if it did not get there
    applied,  \* history: per item, the sum of the counts that passed line 99
    lastEst,  \* history: per item, the estimate of line 118 at its last update, -1 if none
    thr,      \* per thread: where it stands in its update call, and the call's locals
    raced     \* history: TRUE once an update began while another was under way

vars == <<exists, w, d, k, n, tables, heap, top_k, hcols, err, branch, applied, lastEst,
          thr, raced>>

\* ---- Python primitives ---------------------------------------------------
\* len(range(x))
RangeLen(x) == IF x > 0 THEN x ELSE 0

\* a % m with Python's sign rule (result has the sign of m), m # 0, a >= 0
PyMod(a, m) ==
    IF m > 0 THEN a % m
    ELSE LET r == a % (0 - m) IN IF r = 0 THEN 0 ELSE r + m

\* s[idx] of a Python sequence: negative idx counts from the end
IndexOK(s, idx) == (0 - Len(s)) <= idx /\ idx < Len(s)
Pos(s, idx) == IF idx >= 0 THEN idx + 1 ELSE Len(s) + idx + 1

\* [estimate, item] < [estimate, item] : list comparison
PairLess(p, q) ==
    \/ p.est < q.est
    \/ p.est = q.est /\ ItemRank[p.item] < ItemRank[q.item]

SetMin(S) == CHOOSE m \in S : \A e \in S : m <= e

\* sum of f over the keys in S
RECURSIVE SumOver(_, _)
SumOver(f, S) ==
    IF S = {} THEN 0
    ELSE LET x == CHOOSE y \in S : TRUE IN f[x] + SumOver(f, S \ {x})

\* ---- heapq ---------------------------------------------------------------
RECURSIVE SiftdownLoop(_, _, _, _)
SiftdownLoop(h, startpos, pos, newitem) ==
    IF pos > startpos
    THEN LET parentpos == (pos - 1) \div 2
             parent == h[parentpos + 1]
         IN IF PairLess(newitem, parent)
            THEN SiftdownLoop([h EXCEPT ![pos + 1] = parent], startpos, parentpos, newitem)
            ELSE [h EXCEPT ![pos + 1] = newitem]
    ELSE [h EXCEPT ![pos + 1] = newitem]

Siftdown(h, startpos, pos) == SiftdownLoop(h, startpos, pos, h[pos + 1])

RECURSIVE SiftupLoop(_, _, _, _)
SiftupLoop(h, startpos, pos, newitem) ==
    LET childpos == 2 * pos + 1
        rightpos == childpos + 1
        c == IF rightpos < Len(h) /\ ~PairLess(h[childpos + 1], h[rightpos + 1])
             THEN rightpos ELSE childpos
    IN IF childpos < Len(h)
       THEN SiftupLoop([h EXCEPT ![pos + 1] = h[c + 1]], startpos, c, newitem)
       ELSE Siftdown([h EXCEPT ![pos + 1] = newitem], startpos, pos)

Siftup(h, pos) == SiftupLoop(h, pos, pos, h[pos + 1])

RECURSIVE HeapifyFrom(_, _)
HeapifyFrom(h, i) == IF i < 0 THEN h ELSE HeapifyFrom(Siftup(h, i), i - 1)

Heapify(h) == HeapifyFrom(h, (Len(h) \div 2) - 1)

Heappush(h, pair) == Siftdown(Append(h, pair), 0, Len(h))

\* a pushpop that hands back the last pair of the list instead of the first
HeappushpopLast(h, pair) ==
    IF Len(h) > 0 /\ PairLess(h[1], pair)
    THEN [heap |-> Heapify([h EXCEPT ![Len(h)] = pair]), ret |-> h[Len(h)]]
    ELSE [heap |-> h, ret |-> pair]

\* returns the new heap and the pair handed back
Heappushpop(h, pair) ==
    IF Len(h) > 0 /\ PairLess(h[1], pair)
    THEN [heap |-> Siftup([h EXCEPT ![1] = pair], 0), ret |-> h[1]]
    ELSE [heap |-> h, ret |-> pair]

\* ---- CountMinSketch ------------------------------------------------------
\* _hash: the column of item in row r (0-based)
Hash(item, r) == hcols[item][r]

\* the values int(md5.hexdigest(), 16) % w_ can take
HashRange(w_) == {PyMod(g, w_) : g \in Digests}

\* line 103: self._n += count
AddTotalAlways1(total, count) == total + 1

AddTotal(total, count) == total + count

\* line 105: table[idx] += count
BumpAssign(old, count) == count

Bump(old, count) == old + count

\* lines 104-105 with the hash family one row short
RECURSIVE IncRowsShort(_, _, _, _)
IncRowsShort(tabs, item, count, r) ==
    IF r >= Len(tabs) - 1 THEN [tables |-> tabs, err |-> "ok"]
    ELSE LET idx == hcols[item][r]
             row == tabs[r + 1]
         IN IF ~IndexOK(row, idx)
            THEN [tables |-> tabs, err |-> "IndexError"]
            ELSE IncRowsShort([tabs EXCEPT ![r + 1][Pos(row, idx)] = Bump(@, count)],
                              item, count, r + 1)

\* lines 104-105: for table, idx in zip(...): table[idx] += count, from row r on
RECURSIVE IncRows(_, _, _, _)
IncRows(tabs, item, count, r) ==
    IF r >= Len(tabs) THEN [tables |-> tabs, err |-> "ok"]
    ELSE LET idx == Hash(item, r)
             row == tabs[r + 1]
         IN IF ~IndexOK(row, idx)
            THEN [tables |-> tabs, err |-> "IndexError"]
            ELSE IncRows([tabs EXCEPT ![r + 1][Pos(row, idx)] = Bump(@, count)],
                         item, count, r + 1)

\* estimate: min over the rows of table[idx]
EstimateErr(tabs, item) ==
    IF Len(tabs) = 0 THEN "ValueError"
    ELSE IF \E r \in 0..(Len(tabs) - 1) : ~IndexOK(tabs[r + 1], Hash(item, r))
         THEN "IndexError"
         ELSE "ok"

Estimate(tabs, item) ==
    SetMin({tabs[r + 1][Pos(tabs[r + 1], Hash(item, r))] : r \in 0..(Len(tabs) - 1)})

\* line 99 as `if count <= 0`
RejectsNonPositive(count) == count <= 0

\* line 99: if count < 0
Rejects(count) == count < 0

\* the size test of line 129: len(heap) < self._k
BelowCapacityOffByOne(h) == Len(h) <= k

BelowCapacity(h) == Len(h) < k

\* line 134: if estimate <= heap[0][0]
NotAboveMinStrict(estimate, h) == estimate < h[1].est

NotAboveMin(estimate, h) == estimate <= h[1].est

\* line 139: top_k.pop(rmv_item)
PopKeyForgotten(tk, key) == tk

PopKey(tk, key) == [x \in (DOMAIN tk) \ {key} |-> tk[x]]

\* top_k[item] = pair
SetKey(tk, key, pair) == [x \in (DOMAIN tk) \cup {key} |-> IF x = key THEN pair ELSE tk[x]]

\* line 123 left out
ReheapSkipped(h) == h

\* line 123: heapq.heapify(heap)
Reheap(h) == Heapify(h)

\* _update_heap, after estimate has returned; branch names the return taken
UpdateHeap(h, tk, item, estimate) ==
    LET pair == [est |-> estimate, item |-> item] IN
    IF item \in DOMAIN tk
    THEN \* line 122 writes into the pair that heap and top_k share
         [heap  |-> Reheap([i \in 1..Len(h) |->
                              IF h[i].item = item THEN [h[i] EXCEPT !.est = estimate]
                              ELSE h[i]]),
          top_k |-> [tk EXCEPT ![item].est = estimate],
          err   |-> "ok", branch |-> "tracked"]
    ELSE IF BelowCapacity(h)
    THEN [heap  |-> Heappush(h, pair),
          top_k |-> SetKey(tk, item, pair),
          err   |-> "ok", branch |-> "pushed"]
    ELSE IF Len(h) = 0
    THEN [heap |-> h, top_k |-> tk, err |-> "IndexError", branch |-> "none"]
    ELSE IF NotAboveMin(estimate, h)
    THEN [heap |-> h, top_k |-> tk, err |-> "ok", branch |-> "ignored"]
    ELSE LET pp == Heappushpop(h, pair)
             rmv_item == pp.ret.item
         IN IF rmv_item \notin DOMAIN tk
            THEN [heap |-> pp.heap, top_k |-> tk, err |-> "KeyError", branch |-> "none"]
            ELSE [heap  |-> pp.heap,
                  top_k |-> SetKey(PopKey(tk, rmv_item), item, pair),
                  err   |-> "ok", branch |-> "evicted"]

\* the locals of one update call: item and count (the arguments), tmp (the
\* value read by the += under way), row (the row the loop of line 104 is at),
\* est (the estimate of line 118, element 0 of the call's pair), rmv (rmv_item)
Idle == [pc |-> "idle", item |-> "a", count |-> 0, tmp |-> 0, row |-> 0, est |-> 0, rmv |-> "a"]
Done == [Idle EXCEPT !.pc = "done"]

Init ==
    /\ exists = FALSE
    /\ w = 0 /\ d = 0 /\ k = 0 /\ n = 0
    /\ tables = <<>>
    /\ heap = <<>>
    /\ top_k = <<>>
    /\ hcols = [x \in Items |-> <<>>]
    /\ err = "none"
    /\ branch = "none"
    /\ applied = [x \in Items |-> 0]
    /\ lastEst = [x \in Items |-> -1]
    /\ thr = [t \in Threads |-> Idle]
    /\ raced = FALSE

\* CountMinSketch(w_, d_, k_)
Construct(w_, d_, k_) ==
    /\ ~exists
    /\ err = "none"
    /\ RangeLen(w_) * RangeLen(d_) <= MaxCells
    /\ IF w_ = 0 \/ d_ = 0
       THEN /\ err' = "ValueError"
            /\ UNCHANGED <<exists, w, d, k, n, tables, heap, top_k, hcols>>
       ELSE /\ exists' = TRUE
            /\ w' = w_ /\ d' = d_ /\ k' = k_
            /\ n' = 0
            /\ heap' = <<>>
            /\ top_k' = <<>>
            /\ tables' = [r \in 1..RangeLen(d_) |-> [c \in 1..RangeLen(w_) |-> 0]]
            /\ hcols' \in [Items -> [0..(RangeLen(d_) - 1) -> HashRange(w_)]]
            /\ err' = "ok"
    /\ UNCHANGED <<branch, applied, lastEst, thr, raced>>

\* update with the weight check after line 103
UpdateLateCheck(item, count) ==
    /\ exists
    /\ n + count <= MaxTotal
    /\ n' = AddTotal(n, count)
    /\ IF Rejects(count)
       THEN /\ err' = "ValueError"
            /\ branch' = "none"
            /\ UNCHANGED <<tables, heap, top_k, applied, lastEst>>
       ELSE LET inc == IncRows(tables, item, count, 0) IN
            /\ applied' = [applied EXCEPT ![item] = @ + count]
            /\ tables' = inc.tables
            /\ IF inc.err # "ok"
               THEN /\ err' = inc.err
                    /\ branch' = "none"
                    /\ UNCHANGED <<heap, top_k, lastEst>>
               ELSE IF EstimateErr(inc.tables, item) # "ok"
               THEN /\ err' = EstimateErr(inc.tables, item)
                    /\ branch' = "none"
                    /\ UNCHANGED <<heap, top_k, lastEst>>
               ELSE LET estimate == Estimate(inc.tables, item)
                        uh == UpdateHeap(heap, top_k, item, estimate)
                    IN /\ lastEst' = [lastEst EXCEPT ![item] = estimate]
                       /\ heap' = uh.heap
                       /\ top_k' = uh.top_k
                       /\ err' = uh.err
                       /\ branch' = uh.branch
    /\ UNCHANGED <<exists, w, d, k, hcols, thr, raced>>

\* update with line 107 ahead of the loop of lines 104-105
UpdateHeapBeforeCount(item, count) ==
    /\ exists
    /\ n + count <= MaxTotal
    /\ IF Rejects(count)
       THEN /\ err' = "ValueError"
            /\ branch' = "none"
            /\ UNCHANGED <<n, tables, heap, top_k, applied, lastEst>>
       ELSE LET inc == IncRows(tables, item, count, 0) IN
            /\ n' = AddTotal(n, count)
            /\ applied' = [applied EXCEPT ![item] = @ + count]
            /\ tables' = inc.tables
            /\ IF inc.err # "ok"
               THEN /\ err' = inc.err
                    /\ branch' = "none"
                    /\ UNCHANGED <<heap, top_k, lastEst>>
               ELSE IF EstimateErr(tables, item) # "ok"
               THEN /\ err' = EstimateErr(tables, item)
                    /\ branch' = "none"
                    /\ UNCHANGED <<heap, top_k, lastEst>>
               ELSE LET estimate == Estimate(tables, item)
                        uh == UpdateHeap(heap, top_k, item, estimate)
                    IN /\ lastEst' = [lastEst EXCEPT ![item] = estimate]
                       /\ heap' = uh.heap
                       /\ top_k' = uh.top_k
                       /\ err' = uh.err
                       /\ branch' = uh.branch
    /\ UNCHANGED <<exists, w, d, k, hcols, thr, raced>>

\* update(item, count)
Update(item, count) ==
    /\ exists
    /\ n + count <= MaxTotal
    /\ IF Rejects(count)
       THEN /\ err' = "ValueError"
            /\ branch' = "none"
            /\ UNCHANGED <<n, tables, heap, top_k, applied, lastEst>>
       ELSE LET inc == IncRows(tables, item, count, 0) IN
            /\ n' = AddTotal(n, count)
            /\ applied' = [applied EXCEPT ![item] = @ + count]
            /\ tables' = inc.tables
            /\ IF inc.err # "ok"
               THEN /\ err' = inc.err
                    /\ branch' = "none"
                    /\ UNCHANGED <<heap, top_k, lastEst>>
               ELSE IF EstimateErr(inc.tables, item) # "ok"
               THEN /\ err' = EstimateErr(inc.tables, item)
                    /\ branch' = "none"
                    /\ UNCHANGED <<heap, top_k, lastEst>>
               ELSE LET estimate == Estimate(inc.tables, item)
                        uh == UpdateHeap(heap, top_k, item, estimate)
                    IN /\ lastEst' = [lastEst EXCEPT ![item] = estimate]
                       /\ heap' = uh.heap
                       /\ top_k' = uh.top_k
                       /\ err' = uh.err
                       /\ branch' = uh.branch
    /\ UNCHANGED <<exists, w, d, k, hcols, thr, raced>>

DoConstruct == \E w_ \in Widths, d_ \in Depths, k_ \in Caps : Construct(w_, d_, k_)
DoUpdate == \E item \in Items, count \in Weights : Update(item, count)

Next == DoConstruct \/ DoUpdate

Spec == Init /\ [][Next]_vars

\* ---- the rest of the public interface ------------------------------------
Exceptions == {"ValueError", "IndexError", "KeyError", "TypeError", "ZeroDivisionError"}

\* the arguments merge is tried with: the sketch itself, another sketch, None
Others == {"self", "sketch", "None"}

\* line 172: raise NotImplemented(...) calls the NotImplemented constant, which
\* is not callable, so the statement itself raises TypeError
RaiseNotImplemented == "TypeError"

\* a merge that adds the other sketch's total and returns
MergeImplemented(other) ==
    /\ exists
    /\ 2 * n <= MaxTotal
    /\ n' = n + n
    /\ err' = "ok"
    /\ branch' = "none"
    /\ UNCHANGED <<exists, w, d, k, tables, heap, top_k, hcols, applied, lastEst, thr, raced>>

\* merge(count_min_sketch)
Merge(other) ==
    /\ exists
    /\ err' = RaiseNotImplemented
    /\ branch' = "none"
    /\ UNCHANGED <<exists, w, d, k, n, tables, heap, top_k, hcols, applied, lastEst, thr, raced>>

DoMerge == \E other \in Others : Merge(other)

\* default of the parameter k (line 39)
DefaultK == 10

RECURSIVE Pow2(_)
Pow2(e) == IF e <= 0 THEN 1 ELSE 2 * Pow2(e - 1)

\* the arguments the second constructor is tried with, as fractions:
\* eps = 1/j and delta = 1 - 2^-m
EpsValues == {[num |-> 1, den |-> j] : j \in 1..MaxCells}
DeltaValues == {[num |-> Pow2(m) - 1, den |-> Pow2(m)] : m \in 1..MaxCells}

\* line 218: int(math.ceil(1 / eps))
CeilDiv(a, b) == IF a % b = 0 THEN a \div b ELSE (a \div b) + 1
WidthFromEps(eps) == CeilDiv(eps.den, eps.num)

\* ceil(log base 0.5 of num/den), for 0 < num/den <= 1: the least j with
\* den <= num * 2^j
RECURSIVE CeilLogHalfFrom(_, _, _)
CeilLogHalfFrom(num, den, j) ==
    IF den <= num * Pow2(j) THEN j ELSE CeilLogHalfFrom(num, den, j + 1)

\* line 219: math.log(1 - delta, base=0.5); math.log takes its base by
\* position only, so the call raises TypeError before it computes anything
MathLogBaseHalf(x) == [err |-> "TypeError", ceil |-> CeilLogHalfFrom(x.num, x.den, 0)]

\* CountMinSketchUsingEpsAndDelta(eps, delta)
ConstructFromBounds(eps, delta) ==
    /\ ~exists
    /\ err = "none"
    /\ LET w_ == WidthFromEps(eps)
           lg == MathLogBaseHalf([num |-> delta.den - delta.num, den |-> delta.den])
       IN IF lg.err # "ok"
          THEN /\ err' = lg.err
               /\ UNCHANGED <<exists, w, d, k, n, tables, heap, top_k, hcols,
                              branch, applied, lastEst, thr, raced>>
          ELSE Construct(w_, lg.ceil, DefaultK)

DoConstructFromBounds ==
    \E eps \in EpsValues, delta \in DeltaValues : ConstructFromBounds(eps, delta)

\* ---- queries ---------------------------------------------------------------
\* an estimate that also runs the tracker step for the item it is asked about
EstimateQueryTracking(item) ==
    /\ exists
    /\ IF EstimateErr(tables, item) # "ok"
       THEN /\ err' = EstimateErr(tables, item)
            /\ branch' = "none"
            /\ UNCHANGED <<heap, top_k>>
       ELSE LET uh == UpdateHeap(heap, top_k, item, Estimate(tables, item))
            IN /\ heap' = uh.heap
               /\ top_k' = uh.top_k
               /\ err' = uh.err
               /\ branch' = "none"
    /\ UNCHANGED <<exists, w, d, k, n, tables, hcols, applied, lastEst, thr, raced>>

\* estimate(item), called from outside: returns Estimate(tables, item) or raises
EstimateQuery(item) ==
    /\ exists
    /\ err' = EstimateErr(tables, item)
    /\ branch' = "none"
    /\ UNCHANGED <<exists, w, d, k, n, tables, heap, top_k, hcols, applied, lastEst, thr, raced>>

\* what the caller of heavyHitters() holds: the mapping, and whether its dict
\* and its [estimate, item] lists are the objects of self._top_k themselves
ShallowCopy(tk) == [map |-> tk, sameDict |-> FALSE, samePairs |-> TRUE]

\* line 163: copy.deepcopy(self._top_k)
Deepcopy(tk) == [map |-> tk, sameDict |-> FALSE, samePairs |-> FALSE]

HeavyHitters == Deepcopy(top_k)

\* heavyHitters()
HeavyHittersQuery ==
    /\ exists
    /\ err' = "ok"
    /\ branch' = "none"
    /\ UNCHANGED <<exists, w, d, k, n, tables, heap, top_k, hcols, applied, lastEst, thr, raced>>

\* totalCount(): returns self._n
TotalCount == n

TotalCountQuery ==
    /\ exists
    /\ err' = "ok"
    /\ branch' = "none"
    /\ UNCHANGED <<exists, w, d, k, n, tables, heap, top_k, hcols, applied, lastEst, thr, raced>>

\* relativeError(): returns self._eps = 2.0 / w, as a fraction
RelativeError == [num |-> 2, den |-> w]

RelativeErrorQuery ==
    /\ exists
    /\ err' = "ok"
    /\ branch' = "none"
    /\ UNCHANGED <<exists, w, d, k, n, tables, heap, top_k, hcols, applied, lastEst, thr, raced>>

\* confidence(): returns self._delta = 1.0 - 1.0 / math.pow(2, d), as a fraction
Confidence ==
    IF d >= 0 THEN [num |-> Pow2(d) - 1, den |-> Pow2(d)]
    ELSE [num |-> 1 - Pow2(0 - d), den |-> 1]

ConfidenceQuery ==
    /\ exists
    /\ err' = "ok"
    /\ branch' = "none"
    /\ UNCHANGED <<exists, w, d, k, n, tables, heap, top_k, hcols, applied, lastEst, thr, raced>>

DoEstimate == \E item \in Items : EstimateQuery(item)

NextQuery ==
    \/ DoConstruct
    \/ DoUpdate
    \/ DoEstimate
    \/ HeavyHittersQuery
    \/ TotalCountQuery
    \/ RelativeErrorQuery
    \/ ConfidenceQuery

SpecQuery == Init /\ [][NextQuery]_vars

\* ---- a caller that changes the mapping heavyHitters() gave it ---------------
MutateOps == {"add", "delete", "overwrite"}

\* the estimates a caller writes: one below and one above every stored estimate
MutateValues == {0, MaxTotal + 1}

\* s = sketch.heavyHitters(), then one of
\*   s[x] = [v, x]      ("add")
\*   del s[x]           ("delete", x a key of s)
\*   s[x][0] = v        ("overwrite", x a key of s)
\* The sketch changes exactly where s shares an object with it.
SnapshotMutate(op, x, v) ==
    /\ exists
    /\ LET s == HeavyHitters IN
       /\ op \in {"delete", "overwrite"} => x \in DOMAIN s.map
       /\ top_k' = CASE op = "add" /\ s.sameDict -> SetKey(top_k, x, [est |-> v, item |-> x])
                     [] op = "delete" /\ s.sameDict -> PopKey(top_k, x)
                     [] op = "overwrite" /\ s.samePairs -> [top_k EXCEPT ![x].est = v]
                     [] OTHER -> top_k
       /\ heap' = IF op = "overwrite" /\ s.samePairs
                  THEN [i \in 1..Len(heap) |->
                          IF heap[i].item = x THEN [heap[i] EXCEPT !.est = v] ELSE heap[i]]
                  ELSE heap
    /\ err' = "ok"
    /\ branch' = "none"
    /\ UNCHANGED <<exists, w, d, k, n, tables, hcols, applied, lastEst, thr, raced>>

DoSnapshotMutate ==
    \E op \in MutateOps, x \in Items, v \in MutateValues : SnapshotMutate(op, x, v)

NextSnap == DoConstruct \/ DoUpdate \/ DoSnapshotMutate

SpecSnap == Init /\ [][NextSnap]_vars

NextApi == DoConstruct \/ DoConstructFromBounds \/ DoUpdate \/ DoMerge

SpecApi == Init /\ [][NextApi]_vars

\* ---- update, one step at a time, from two threads ---------------------------
\* Each thread makes one update call on the sketch the constructor returned.
\* A thread switch can fall between any two steps below; the heapq calls and
\* the dict operations are single steps.  The call's pair [estimate, item] is
\* <<est, item>> of the thread's locals; once line 130 has stored it in top_k
\* the other thread's write of line 122 goes to that same list.
Other(t) == CHOOSE u \in Threads : u # t
Active(t) == thr[t].pc \notin {"idle", "done"}
Quiet == \A t \in Threads : ~Active(t)
PairOf(t) == [est |-> thr[t].est, item |-> thr[t].item]

\* the call of thread t returns or raises
Finish(t, e, b) ==
    /\ thr' = [thr EXCEPT ![t] = Done]
    /\ err' = e
    /\ branch' = b

Goto(t, label) == thr' = [thr EXCEPT ![t].pc = label]

\* lines 99-102: the call begins with the weight check
Begin(t, item, count) ==
    /\ exists
    /\ thr[t].pc = "idle"
    /\ SumOver(applied, Items) + count <= MaxTotal
    /\ raced' = (raced \/ Active(Other(t)))
    /\ IF Rejects(count)
       THEN /\ Finish(t, "ValueError", "none")
            /\ UNCHANGED applied
       ELSE /\ thr' = [thr EXCEPT ![t] = [Idle EXCEPT !.pc = "n_read", !.item = item,
                                                        !.count = count]]
            /\ applied' = [applied EXCEPT ![item] = @ + count]
            /\ UNCHANGED <<err, branch>>
    /\ UNCHANGED <<exists, w, d, k, n, tables, heap, top_k, hcols, lastEst>>

\* line 103, the read of self._n
TotalRead(t) ==
    /\ thr[t].pc = "n_read"
    /\ thr' = [thr EXCEPT ![t].pc = "n_write", ![t].tmp = n]
    /\ UNCHANGED <<exists, w, d, k, n, tables, heap, top_k, hcols, err, branch,
                   applied, lastEst, raced>>

\* line 103, the store to self._n
TotalWrite(t) ==
    /\ thr[t].pc = "n_write"
    /\ n' = AddTotal(thr[t].tmp, thr[t].count)
    /\ thr' = [thr EXCEPT ![t].pc = IF Len(tables) = 0 THEN "estimate" ELSE "row_read",
                          ![t].tmp = 0, ![t].row = 0]
    /\ UNCHANGED <<exists, w, d, k, tables, heap, top_k, hcols, err, branch,
                   applied, lastEst, raced>>

\* line 105, the read of table[idx]
RowRead(t) ==
    /\ thr[t].pc = "row_read"
    /\ LET r == thr[t].row
           idx == Hash(thr[t].item, r)
           row == tables[r + 1]
       IN IF ~IndexOK(row, idx)
          THEN Finish(t, "IndexError", "none")
          ELSE /\ thr' = [thr EXCEPT ![t].pc = "row_write", ![t].tmp = row[Pos(row, idx)]]
               /\ UNCHANGED <<err, branch>>
    /\ UNCHANGED <<exists, w, d, k, n, tables, heap, top_k, hcols, applied, lastEst, raced>>

\* line 105, the store to table[idx]
RowWrite(t) ==
    /\ thr[t].pc = "row_write"
    /\ LET r == thr[t].row
           row == tables[r + 1]
           idx == Hash(thr[t].item, r)
       IN /\ tables' = [tables EXCEPT ![r + 1][Pos(row, idx)] = Bump(thr[t].tmp, thr[t].count)]
          /\ thr' = [thr EXCEPT ![t].pc = IF r + 1 >= Len(tables) THEN "estimate"
                                          ELSE "row_read",
                                ![t].tmp = 0, ![t].row = r + 1]
    /\ UNCHANGED <<exists, w, d, k, n, heap, top_k, hcols, err, branch,
                   applied, lastEst, raced>>

\* line 118: estimate = self.estimate(item)
EstimateRead(t) ==
    /\ thr[t].pc = "estimate"
    /\ LET item == thr[t].item IN
       IF EstimateErr(tables, item) # "ok"
       THEN /\ Finish(t, EstimateErr(tables, item), "none")
            /\ UNCHANGED lastEst
       ELSE /\ thr' = [thr EXCEPT ![t].pc = "member", ![t].row = 0,
                                  ![t].est = Estimate(tables, item)]
            /\ lastEst' = [lastEst EXCEPT ![item] = Estimate(tables, item)]
            /\ UNCHANGED <<err, branch>>
    /\ UNCHANGED <<exists, w, d, k, n, tables, heap, top_k, hcols, applied, raced>>

\* line 121: if item in top_k
MemberTest(t) ==
    /\ thr[t].pc = "member"
    /\ Goto(t, IF thr[t].item \in DOMAIN top_k THEN "set_estimate" ELSE "size")
    /\ UNCHANGED <<exists, w, d, k, n, tables, heap, top_k, hcols, err, branch,
                   applied, lastEst, raced>>

\* line 122: top_k[item][0] = estimate, a write into the list that top_k, the
\* heap once it holds it, and the call that made it all refer to
SetEstimate(t) ==
    /\ thr[t].pc = "set_estimate"
    /\ LET item == thr[t].item
           estimate == thr[t].est
           u == Other(t)
       IN IF item \notin DOMAIN top_k
          THEN /\ Finish(t, "KeyError", "none")
               /\ UNCHANGED <<heap, top_k>>
          ELSE /\ top_k' = [top_k EXCEPT ![item].est = estimate]
               /\ heap' = [i \in 1..Len(heap) |->
                             IF heap[i].item = item THEN [heap[i] EXCEPT !.est = estimate]
                             ELSE heap[i]]
               /\ thr' = [thr EXCEPT ![t].pc = "heapify",
                                     ![u].est = IF thr[u].pc = "push_heap" /\ thr[u].item = item
                                                THEN estimate ELSE @]
               /\ UNCHANGED <<err, branch>>
    /\ UNCHANGED <<exists, w, d, k, n, tables, hcols, applied, lastEst, raced>>

\* lines 123-124: heapq.heapify(heap); return
HeapifyReturn(t) ==
    /\ thr[t].pc = "heapify"
    /\ heap' = Reheap(heap)
    /\ Finish(t, "ok", "tracked")
    /\ UNCHANGED <<exists, w, d, k, n, tables, top_k, hcols, applied, lastEst, raced>>

\* line 129: if len(heap) < self._k
SizeTest(t) ==
    /\ thr[t].pc = "size"
    /\ Goto(t, IF BelowCapacity(heap) THEN "push_index" ELSE "peek")
    /\ UNCHANGED <<exists, w, d, k, n, tables, heap, top_k, hcols, err, branch,
                   applied, lastEst, raced>>

\* line 130: top_k[item] = pair
PushIndex(t) ==
    /\ thr[t].pc = "push_index"
    /\ top_k' = SetKey(top_k, thr[t].item, PairOf(t))
    /\ Goto(t, "push_heap")
    /\ UNCHANGED <<exists, w, d, k, n, tables, heap, hcols, err, branch,
                   applied, lastEst, raced>>

\* lines 131-132: heapq.heappush(heap, pair); return
PushHeap(t) ==
    /\ thr[t].pc = "push_heap"
    /\ heap' = Heappush(heap, PairOf(t))
    /\ Finish(t, "ok", "pushed")
    /\ UNCHANGED <<exists, w, d, k, n, tables, top_k, hcols, applied, lastEst, raced>>

\* lines 134-135: if estimate <= heap[0][0]: return
Peek(t) ==
    /\ thr[t].pc = "peek"
    /\ IF Len(heap) = 0
       THEN Finish(t, "IndexError", "none")
       ELSE IF NotAboveMin(thr[t].est, heap)
       THEN Finish(t, "ok", "ignored")
       ELSE Goto(t, "pushpop") /\ UNCHANGED <<err, branch>>
    /\ UNCHANGED <<exists, w, d, k, n, tables, heap, top_k, hcols, applied, lastEst, raced>>

\* line 138: rmv_estimate, rmv_item = heapq.heappushpop(heap, pair)
PushPop(t) ==
    /\ thr[t].pc = "pushpop"
    /\ LET pp == Heappushpop(heap, PairOf(t)) IN
       /\ heap' = pp.heap
       /\ thr' = [thr EXCEPT ![t].pc = "pop_index", ![t].rmv = pp.ret.item]
    /\ UNCHANGED <<exists, w, d, k, n, tables, top_k, hcols, err, branch,
                   applied, lastEst, raced>>

\* line 139: top_k.pop(rmv_item)
PopIndex(t) ==
    /\ thr[t].pc = "pop_index"
    /\ IF thr[t].rmv \notin DOMAIN top_k
       THEN Finish(t, "KeyError", "none") /\ UNCHANGED top_k
       ELSE /\ top_k' = PopKey(top_k, thr[t].rmv)
            /\ Goto(t, "set_index")
            /\ UNCHANGED <<err, branch>>
    /\ UNCHANGED <<exists, w, d, k, n, tables, heap, hcols, applied, lastEst, raced>>

\* line 140: top_k[item] = pair
SetIndex(t) ==
    /\ thr[t].pc = "set_index"
    /\ top_k' = SetKey(top_k, thr[t].item, PairOf(t))
    /\ Finish(t, "ok", "evicted")
    /\ UNCHANGED <<exists, w, d, k, n, tables, heap, hcols, applied, lastEst, raced>>

\* the sketch the threads share: CountMinSketch(w_, d_, k_) with w_, d_ >= 1
DoConstructShared ==
    \E w_ \in 1..MaxSharedCells, d_ \in 1..MaxSharedCells, k_ \in Caps :
        w_ * d_ <= MaxSharedCells /\ Construct(w_, d_, k_)

DoBegin == \E t \in Threads, item \in Items, count \in Weights : Begin(t, item, count)
DoTotalRead == \E t \in Threads : TotalRead(t)
DoTotalWrite == \E t \in Threads : TotalWrite(t)
DoRowRead == \E t \in Threads : RowRead(t)
DoRowWrite == \E t \in Threads : RowWrite(t)
DoEstimateRead == \E t \in Threads : EstimateRead(t)
DoMemberTest == \E t \in Threads : MemberTest(t)
DoSetEstimate == \E t \in Threads : SetEstimate(t)
DoHeapifyReturn == \E t \in Threads : HeapifyReturn(t)
DoSizeTest == \E t \in Threads : SizeTest(t)
DoPushIndex == \E t \in Threads : PushIndex(t)
DoPushHeap == \E t \in Threads : PushHeap(t)
DoPeek == \E t \in Threads : Peek(t)
DoPushPop == \E t \in Threads : PushPop(t)
DoPopIndex == \E t \in Threads : PopIndex(t)
DoSetIndex == \E t \in Threads : SetIndex(t)

NextThreads ==
    \/ DoConstructShared
    \/ DoBegin
    \/ DoTotalRead
    \/ DoTotalWrite
    \/ DoRowRead
    \/ DoRowWrite
    \/ DoEstimateRead
    \/ DoMemberTest
    \/ DoSetEstimate
    \/ DoHeapifyReturn
    \/ DoSizeTest
    \/ DoPushIndex
    \/ DoPushHeap
    \/ DoPeek
    \/ DoPushPop
    \/ DoPopIndex
    \/ DoSetIndex

SpecThreads == Init /\ [][NextThreads]_vars

\* ---- properties ----------------------------------------------------------
Tracked == DOMAIN top_k
Usable == exists /\ w >= 1 /\ d >= 1

\* C1 (no-underestimate): on a sketch with width >= 1 and depth >= 1, after
\* any sequence of updates, estimate(x) is at least the sum of the
\* non-negative weights applied to x, for every item x and every hash family.
NoUnderestimate ==
    Usable => \A x \in Items : Estimate(tables, x) >= applied[x]

NoUnderestimateWitness ==
    /\ Usable /\ err = "ok"
    /\ \E x, y \in Items : x # y /\ applied[x] >= 1 /\ applied[y] >= 1

\* C2 (monotonicity): no step lowers estimate(x) for any item x, whether the
\* update was applied to x or to another item.
EstimateMonotone ==
    [][Usable => \A x \in Items : Estimate(tables, x)' >= Estimate(tables, x)]_vars

\* an estimate that a collision has raised above the item's own weight
EstimateMonotoneWitness ==
    /\ Usable /\ err = "ok"
    /\ \E x \in Items : applied[x] >= 1 /\ Estimate(tables, x) > applied[x]

\* C3 (total count additivity): totalCount() is the sum of the weights of the
\* updates that passed the weight check, and it never decreases.
TotalCountAdditive ==
    /\ [](n = SumOver(applied, Items))
    /\ [][n' >= n]_vars

\* accepted weights counted, and a rejected update in between left n alone
TotalCountAdditiveWitness ==
    /\ Usable /\ n >= 2 /\ err = "ValueError"

\* C4 (heavy-hitter bound): the heap and heavyHitters() never hold more than
\* k entries.
HeavyHitterBound ==
    exists => Len(heap) <= k /\ Cardinality(Tracked) <= k

\* the tracker is full and some updated item is outside it
HeavyHitterBoundWitness ==
    /\ exists /\ k >= 1 /\ Len(heap) = k
    /\ \E x \in Items : lastEst[x] >= 0 /\ x \notin Tracked
StoredEsts == {top_k[y].est : y \in Tracked}
HeapPairs(h) == {h[i] : i \in 1..Len(h)}

\* C5 (minimum eviction): an update of an untracked item x while the tracker
\* holds exactly k >= 1 entries either (a) finds x's new estimate strictly
\* above the smallest stored estimate, and then exactly one entry with that
\* smallest estimate leaves, the pair (x, estimate) enters and every other
\* entry stays as it was, or (b) finds it at or below the smallest stored
\* estimate, and then heap and reverse index are unchanged.
MinimumEviction ==
    [][\A x \in Items, c \in 0..MaxWeight :
         (Usable /\ k >= 1 /\ x \notin Tracked /\ Len(heap) = k /\ Update(x, c))
         => LET e == Estimate(tables, x)'
                m == SetMin(StoredEsts)
            IN IF e > m
               THEN \E y \in Tracked :
                      /\ top_k[y].est = m
                      /\ Tracked' = (Tracked \ {y}) \cup {x}
                      /\ top_k'[x] = [est |-> e, item |-> x]
                      /\ \A z \in Tracked \ {y} : top_k'[z] = top_k[z]
                      /\ HeapPairs(heap') = (HeapPairs(heap) \ {top_k[y]}) \cup {top_k'[x]}
                      /\ Len(heap') = k
               ELSE top_k' = top_k /\ heap' = heap]_vars

\* an eviction from a tracker of two entries
MinimumEvictionWitness ==
    /\ Usable /\ k = 2 /\ branch = "evicted" /\ err = "ok"

\* C6 (negative weight rejection): update with a negative weight raises and
\* leaves totalCount, the table, the heap and the reverse index as they were.
NegativeRejectedAtomically ==
    [][\A x \in Items, c \in Weights :
         (c < 0 /\ Update(x, c))
         => err' = "ValueError" /\ UNCHANGED <<n, tables, heap, top_k>>]_vars

\* a rejection on a sketch that already counts and tracks something
NegativeRejectedWitness ==
    /\ exists /\ err = "ValueError" /\ n >= 1 /\ Len(heap) >= 1

\* C7 (construction validation): the constructor fails, and yields no sketch,
\* exactly when width <= 0 or depth <= 0.
ConstructionValidated ==
    [][\A w_ \in Widths, d_ \in Depths, k_ \in Caps :
         Construct(w_, d_, k_) => (exists' <=> (w_ >= 1 /\ d_ >= 1))]_vars

\* C8 (update fails only for negative weight): on every sketch the constructor
\* returned, update with weight >= 0 completes without an exception.
UpdateFailsOnlyOnNegative ==
    [][\A x \in Items, c \in 0..MaxWeight : Update(x, c) => err' = "ok"]_vars

\* C9 (top-k invariant): with k >= 1, every updated item outside the tracker
\* had at its own last update an estimate <= every stored estimate, and while
\* fewer than k distinct items have been updated all of them are tracked.
Updated == {y \in Items : lastEst[y] >= 0}

TopKInvariant ==
    (exists /\ k >= 1) =>
        /\ \A y \in Updated \ Tracked : \A x \in Tracked : lastEst[y] <= top_k[x].est
        /\ Cardinality(Updated) < k => Updated \subseteq Tracked

\* a full tracker of two with a counted item left outside, below a tracked one
TopKInvariantWitness ==
    /\ exists /\ k = 2 /\ Cardinality(Tracked) = 2
    /\ \E y \in Updated \ Tracked :
         lastEst[y] >= 1 /\ \E x \in Tracked : top_k[x].est > lastEst[y]

\* C10 (heap / reverse-index consistency): the items of the heap are pairwise
\* distinct, they are exactly the keys of the reverse index, and each key maps
\* to the heap pair of that item, after accepted and rejected updates alike.
HeapIndexConsistent ==
    exists =>
        /\ \A i, j \in 1..Len(heap) : i # j => heap[i].item # heap[j].item
        /\ {heap[i].item : i \in 1..Len(heap)} = Tracked
        /\ \A i \in 1..Len(heap) : top_k[heap[i].item] = heap[i]

\* two entries with different estimates, one of which came in by eviction
HeapIndexConsistentWitness ==
    /\ exists /\ Len(heap) = 2 /\ branch = "evicted"
    /\ heap[1].est < heap[2].est
\* C11 (merge is unimplemented): merge fails for every argument and in every
\* state, and leaves totalCount, the table, the heap and the reverse index
\* unchanged.
MergeAlwaysFails ==
    [][\A other \in Others :
         Merge(other) => err' \in Exceptions /\ UNCHANGED <<n, tables, heap, top_k>>]_vars

\* a failed merge on a sketch that counts and tracks something
MergeAlwaysFailsWitness ==
    /\ Usable /\ err = "TypeError" /\ n >= 1 /\ Len(heap) >= 1
\* C12 (construction from error bounds): for eps = 1/j and delta = 1 - 2^-m
\* the second constructor returns an empty sketch with width ceil(1/eps),
\* depth ceil(log base 0.5 of (1 - delta)) and capacity 10.
ConstructFromBoundsDerives ==
    [][\A eps \in EpsValues, delta \in DeltaValues :
         ConstructFromBounds(eps, delta)
         => /\ exists'
            /\ w' = CeilDiv(eps.den, eps.num)
            /\ d' = CeilLogHalfFrom(delta.den - delta.num, delta.den, 0)
            /\ k' = 10
            /\ n' = 0 /\ heap' = <<>> /\ top_k' = <<>>]_vars
\* C13 (snapshot isolation): whatever a caller does to the mapping returned by
\* heavyHitters() (adding a key, deleting a key, overwriting the estimate in
\* an entry), the heap, the reverse index, the table and totalCount stay as
\* they were, and with them every later heavyHitters() and estimate() result.
SnapshotIsolated ==
    [][(\E op \in MutateOps, x \in Items, v \in MutateValues : SnapshotMutate(op, x, v))
         => /\ UNCHANGED <<heap, top_k, tables, n>>
            /\ HeavyHitters' = HeavyHitters
            /\ Usable => \A y \in Items : Estimate(tables, y)' = Estimate(tables, y)]_vars

\* under SpecSnap only a caller's mutation leaves a tracking sketch with
\* err = "ok" and branch = "none"
SnapshotIsolatedWitness ==
    /\ Usable /\ err = "ok" /\ branch = "none"
    /\ Len(heap) >= 1 /\ \E x \in Tracked : top_k[x].est >= 1
\* C14 (fresh estimate after own update): after a successful update of x that
\* leaves x in the tracker (x was tracked, or was pushed below capacity, or
\* came in by eviction), the estimate stored for x equals estimate(x) in the
\* resulting state.
FreshAfterOwnUpdate ==
    [][\A x \in Items, c \in 0..MaxWeight :
         (Update(x, c) /\ err' = "ok" /\ x \in Tracked')
         => top_k'[x].est = Estimate(tables, x)']_vars

\* the one tracked item was updated again and carries its current estimate
FreshAfterOwnUpdateWitness ==
    /\ Usable /\ k = 1 /\ err = "ok" /\ branch = "tracked"
    /\ \E x \in Tracked : top_k[x].est = Estimate(tables, x) /\ top_k[x].est >= 2

\* C15 (zero-weight update): update(x, 0) leaves totalCount and every counter
\* unchanged and still runs the tracker step with x's current estimate e: a
\* tracked x has its stored estimate set to e, an untracked x enters a tracker
\* below capacity, or replaces the minimum entry of a full tracker when e
\* exceeds it, and otherwise the tracker is unchanged.
ZeroWeightUpdate ==
    [][\A x \in Items :
         Update(x, 0)
         => /\ n' = n /\ tables' = tables
            /\ (Usable /\ k >= 1)
               => LET e == Estimate(tables, x) IN
                  /\ err' = "ok"
                  /\ lastEst'[x] = e
                  /\ IF x \in Tracked
                     THEN Tracked' = Tracked /\ top_k'[x].est = e
                     ELSE IF Cardinality(Tracked) < k
                     THEN Tracked' = Tracked \cup {x} /\ top_k'[x].est = e
                     ELSE IF e > SetMin(StoredEsts)
                     THEN /\ x \in Tracked' /\ top_k'[x].est = e
                          /\ Cardinality(Tracked') = k
                          /\ \E y \in Tracked : y \notin Tracked' /\ top_k[y].est = SetMin(StoredEsts)
                     ELSE top_k' = top_k /\ heap' = heap]_vars

\* a never-counted item sits in a full tracker of two with the whole count as
\* its estimate, right after an eviction: a zero-weight update evicted
ZeroWeightUpdateWitness ==
    /\ Usable /\ k = 2 /\ branch = "evicted" /\ n >= 1
    /\ \E x \in Tracked : applied[x] = 0 /\ top_k[x].est = n
\* C16 (tracker frame and staleness): a successful update of x adds no item
\* other than x to the tracker (so an item outside the tracker stays outside
\* until it is updated itself), removes at most one item, and then only a
\* minimum-estimate entry while x comes in at capacity, and leaves the stored
\* pair of every other tracked item as it was, whatever its real estimate.
TrackerFrame ==
    [][\A x \in Items, c \in 0..MaxWeight :
         (Update(x, c) /\ err' = "ok")
         => /\ Tracked' \ Tracked \subseteq {x}
            /\ Cardinality(Tracked \ Tracked') <= 1
            /\ \A y \in Tracked \ Tracked' :
                 /\ x \notin Tracked /\ x \in Tracked'
                 /\ Cardinality(Tracked) = k
                 /\ top_k[y].est = SetMin(StoredEsts)
            /\ \A z \in (Tracked \cap Tracked') \ {x} : top_k'[z] = top_k[z]]_vars

\* after an eviction an entry holds less than its item's current estimate
TrackerFrameWitness ==
    /\ Usable /\ err = "ok" /\ branch = "evicted"
    /\ \E z \in Tracked : top_k[z].est < Estimate(tables, z)
\* C17 (read-only queries): estimate, heavyHitters, totalCount, relativeError
\* and confidence leave the table, totalCount, the heap and the reverse index
\* (and the sketch's parameters) unchanged in every state, so any number of them
\* between two updates changes nothing the updates see.
QueriesReadOnly ==
    [][(\/ \E x \in Items : EstimateQuery(x)
        \/ HeavyHittersQuery
        \/ TotalCountQuery
        \/ RelativeErrorQuery
        \/ ConfidenceQuery)
       => UNCHANGED <<exists, w, d, k, n, tables, heap, top_k, hcols>>]_vars

\* under SpecQuery only a query leaves a tracking sketch with err = "ok" and
\* branch = "none"; here with a tracked and an untracked updated item
QueriesReadOnlyWitness ==
    /\ Usable /\ err = "ok" /\ branch = "none"
    /\ Len(heap) >= 1 /\ Updated \ Tracked # {}
RECURSIVE SumSeq(_)
SumSeq(q) == IF q = <<>> THEN 0 ELSE Head(q) + SumSeq(Tail(q))

\* C19 (row-sum invariant): on a sketch with width >= 1 and depth >= 1 the
\* counters of each row sum to totalCount, so every counter and every estimate
\* lies between 0 and totalCount.
RowSumInvariant ==
    Usable =>
        /\ \A r \in 1..Len(tables) :
             /\ SumSeq(tables[r]) = n
             /\ \A c \in 1..Len(tables[r]) : tables[r][c] >= 0 /\ tables[r][c] <= n
        /\ \A x \in Items : Estimate(tables, x) >= 0 /\ Estimate(tables, x) <= n

\* two rows, and a row whose count is spread over two counters
RowSumInvariantWitness ==
    /\ Usable /\ d >= 2 /\ w >= 2 /\ n >= 2
    /\ \E r \in 1..Len(tables) : \E c1, c2 \in 1..Len(tables[r]) :
         c1 # c2 /\ tables[r][c1] >= 1 /\ tables[r][c2] >= 1

\* C20 (stored estimates are sound but possibly stale): for every tracked item
\* the stored estimate is at least the sum of the weights applied to the item
\* and at most its current estimate, and it never decreases while the item
\* stays tracked.
StoredEstimateSound ==
    /\ [](exists => \A x \in Tracked :
                      /\ applied[x] <= top_k[x].est
                      /\ top_k[x].est <= Estimate(tables, x))
    /\ [][\A x \in Tracked \cap Tracked' : top_k'[x].est >= top_k[x].est]_vars

\* a counted, tracked item whose stored estimate an ignored update of a
\* colliding item has left behind
StoredEstimateSoundWitness ==
    /\ Usable /\ err = "ok" /\ branch = "ignored"
    /\ \E x \in Tracked : applied[x] >= 1 /\ top_k[x].est < Estimate(tables, x)
\* what an update leaves behind when it has run alone: a tracker within its
\* capacity, heap and reverse index holding the same pairs, and every accepted
\* weight in the total and once in each row
TrackerSound ==
    /\ Len(heap) <= k /\ Cardinality(Tracked) <= k
    /\ \A i, j \in 1..Len(heap) : i # j => heap[i].item # heap[j].item
    /\ {heap[i].item : i \in 1..Len(heap)} = Tracked
    /\ \A i \in 1..Len(heap) : top_k[heap[i].item] = heap[i]
CountersSound ==
    /\ n = SumOver(applied, Items)
    /\ Usable => \A r \in 1..Len(tables) : SumSeq(tables[r]) = n

\* C18 (unserialized concurrent updates): when two update calls interleave
\* step by step, the sketch can be left with heap and reverse index apart, the
\* tracker over capacity, or an increment lost; when one call has returned
\* before the other begins, it never is.
SerializedUpdatesSound ==
    (exists /\ Quiet /\ ~raced) => (TrackerSound /\ CountersSound)

\* both calls have returned, they overlapped, and the tracker is broken
SerializedUpdatesSoundWitness ==
    /\ exists /\ Quiet /\ raced
    /\ \A t \in Threads : thr[t].pc = "done"
    /\ ~TrackerSound
====
